---- MODULE Spec2Model ----
(***************************************************************************)
(* Model of the actors/films record manager (Flask + SQLAlchemy).          *)
(*                                                                         *)
(* The committed store is the three tables of models.py.  Every request    *)
(* handler of views/actors.py and views/films.py is a sequence of steps,   *)
(* one step per interaction with the database session; a handler's writes  *)
(* reach the committed store only at db.session.commit().  The store       *)
(* enforces the constraints declared in models.py (primary keys, the two   *)
(* foreign keys and the unique constraint of films_actors) with the        *)
(* semantics of the configured engine (PostgreSQL, config.py:27).          *)
(***************************************************************************)
EXTENDS Integers, Sequences, FiniteSets, TLC

\* ------------------------------------------------------------------ bounds
NumWorkers == 2     \* requests that can be in flight at once
MaxActors == 2      \* actor identifiers ever generated
MaxFilms == 2       \* film identifiers ever generated
MaxLinks == 2       \* films_actors row identifiers ever generated
StartDay == 1       \* the day the application starts on
MaxDay == 2         \* the last day the clock reaches
DaysPerYear == 2    \* length of a calendar year, in days

\* ------------------------------------------------------- program constants
MAX_TITLE_LENGTH == 200
MAX_DESCRIPTION_LENGTH == 1000
MAX_GENRE_LENGTH == 150

all_countries == {"United States", "United Kingdom"}
valid_statuses == {"completed", "continues", "announcement"}

Workers == 1..NumWorkers
ActorIds == 1..MaxActors
FilmIds == 1..MaxFilms

VARIABLES
    today,          \* datetime.today().date(), as a day number
    actors,         \* table actors: identifier -> row
    films,          \* table films: identifier -> row
    films_actors,   \* table films_actors: set of rows [id, film_id, actor_id]
    uuid,           \* identifiers handed out so far, per table (uuid4 is fresh)
    pc,             \* per worker: the step its request is at
    req,            \* per worker: the identifiers its request carries and
                    \* the rows its open transaction has deleted
    resp            \* per worker: the response being returned

store == <<actors, films, films_actors>>
vars == <<today, actors, films, films_actors, uuid, pc, req, resp>>

\* ------------------------------------------------------------ calendar
YearOf(d) == d \div DaysPerYear

\* A calendar-date form field: <<>> is the empty string, <<d>> the
\* well-formed text "YYYY-MM-DD" of day d.
\* datetime.strptime(s, '%Y-%m-%d').date(): raises ValueError on ''.
StrptimeRaises(s) == Len(s) = 0
Strptime(s) == s[1]

\* int(year): raises ValueError on ''.
IntRaises(s) == Len(s) = 0
IntOf(s) == s[1]

\* ------------------------------------------------------------ responses
\* status: the HTTP status; msg: the error text; id: the identifier a
\* redirect leads to (0: a list page); page: the values a template is
\* rendered with, <<>> when none is
NoResponse == [status |-> 0, msg |-> "", id |-> 0, page |-> <<>>]
Rendered(values) == [status |-> 200, msg |-> "", id |-> 0, page |-> <<values>>]
Redirect(i) == [status |-> 302, msg |-> "", id |-> i, page |-> <<>>]
BadRequest(m) == [status |-> 400, msg |-> m, id |-> 0, page |-> <<>>]
NotFound == [status |-> 404, msg |-> "", id |-> 0, page |-> <<>>]
Conflict == [status |-> 409, msg |-> "", id |-> 0, page |-> <<>>]
\* an exception no handler catches, named by its class: Flask answers 500
\* and the session is rolled back
ServerError(exception) == [status |-> 500, msg |-> exception, id |-> 0, page |-> <<>>]

NoRequest == [actor_id |-> 0, film_id |-> 0, rows |-> {}]

\* ------------------------------------------------------------ the store
\* rows of films_actors another worker's open transaction has deleted and
\* not yet committed: PostgreSQL makes a statement touching them wait
LockedByOther(w) ==
    UNION {req[v].rows : v \in {u \in Workers \ {w} :
                pc[u] \in {"delete_actor_commit", "delete_film_commit"}}}

RowsOfActor(a) == {r \in films_actors : r.actor_id = a}
RowsOfFilm(f) == {r \in films_actors : r.film_id = f}
RowsOfPair(a, f) == {r \in films_actors : r.actor_id = a /\ r.film_id = f}

\* mutant: the table is created without its unique constraint
UniqueViolated_absent(a, f) == FALSE

\* UniqueConstraint('film_id', 'actor_id') at INSERT
UniqueViolated(a, f) == RowsOfPair(a, f) # {}

\* mutant: the columns are declared without their foreign keys
ForeignKeyViolated_absent(a, f) == FALSE

\* ForeignKey('films.id'), ForeignKey('actors.id') at INSERT into films_actors
ForeignKeyViolated(a, f) == a \notin DOMAIN actors \/ f \notin DOMAIN films

\* ForeignKey at DELETE of an actor / a film: rows still referencing it
\* once the transaction's own deletions are applied
ActorStillReferenced(a, deleted) == (RowsOfActor(a) \ deleted) # {}
FilmStillReferenced(f, deleted) == (RowsOfFilm(f) \ deleted) # {}

\* mutant: db.session.delete is forgotten, the row stays
Remove_kept(table, i) == table

Remove(table, i) == [k \in (DOMAIN table) \ {i} |-> table[k]]
Put(table, i, row) == [k \in (DOMAIN table) \cup {i} |-> IF k = i THEN row ELSE table[k]]

\* ------------------------------------------------------------ worker steps
\* the handler returns or raises: the response r is on its way, the
\* request's session is closed
Respond(w, r) ==
    /\ pc' = [pc EXCEPT ![w] = "done"]
    /\ resp' = [resp EXCEPT ![w] = r]
    /\ UNCHANGED req

\* a handler that answers at its first step, for the identifiers a and f
Answer(w, a, f, r) ==
    /\ pc' = [pc EXCEPT ![w] = "done"]
    /\ resp' = [resp EXCEPT ![w] = r]
    /\ req' = [req EXCEPT ![w] = [actor_id |-> a, film_id |-> f, rows |-> {}]]

Goto(w, step, r) ==
    /\ pc' = [pc EXCEPT ![w] = step]
    /\ req' = [req EXCEPT ![w] = r]
    /\ UNCHANGED resp

\* the response reaches the client; the worker takes the next request
Return(w) ==
    /\ pc[w] = "done"
    /\ pc' = [pc EXCEPT ![w] = "idle"]
    /\ resp' = [resp EXCEPT ![w] = NoResponse]
    /\ req' = [req EXCEPT ![w] = NoRequest]
    /\ UNCHANGED <<today, actors, films, films_actors, uuid>>

\* a statement of an open request fails (the connection is lost): the
\* exception propagates, the session is rolled back, nothing is committed
DbFail(w) ==
    /\ pc[w] \notin {"idle", "done"}
    /\ Respond(w, ServerError("OperationalError"))
    /\ UNCHANGED <<today, actors, films, films_actors, uuid>>

\* ------------------------------------------------------------ form inputs
\* calendar-date fields a client submits: empty, yesterday, today, tomorrow
DateInputs == {<<>>} \cup {<<d>> : d \in {today - 1, today, today + 1}}
\* year fields: empty, last year, this year, next year
YearInputs == {<<>>} \cup {<<y>> : y \in {YearOf(today) - 1, YearOf(today), YearOf(today) + 1}}
CountryInputs == {"United States", "Narnia"}

ActorForm(n, b, d, c) ==
    [full_name |-> n, birth_date |-> b, sex |-> "Male", country |-> c, death |-> d]

AllActorForms ==
    {ActorForm(n, b, d, c) : n \in {"John Doe", "Jane Smith"}, b \in DateInputs,
                             d \in DateInputs, c \in CountryInputs}
\* one acceptable and one unacceptable submission
FewActorForms ==
    {ActorForm("John Doe", <<today>>, <<today>>, c) : c \in CountryInputs}

\* ------------------------------------------------------------ views/actors.py
\* mutant: the check that the death date is not in the future is missing
add_actor_checks_death_unchecked(birth_date, death, country) ==
    IF birth_date > today THEN "Birth date cannot be in the future."
    ELSE IF birth_date > death THEN "Birth date cannot bigger than death"
    ELSE IF country \notin all_countries
         THEN "This country does not exists, please write full name of your country"
    ELSE ""

\* add_actor, the checks between parsing and the write
add_actor_checks(birth_date, death, country) ==
    IF birth_date > today THEN "Birth date cannot be in the future."
    ELSE IF birth_date > death THEN "Birth date cannot bigger than death"
    ELSE IF death > today THEN "Death date cannot be in the future."
    ELSE IF country \notin all_countries
         THEN "This country does not exists, please write full name of your country"
    ELSE ""

\* mutant: update_actor does not check the country
update_actor_checks_country_unchecked(birth_date, death, country) ==
    IF birth_date > today THEN "Birth date cannot be in the future."
    ELSE IF birth_date > death THEN "Birth date cannot bigger than death"
    ELSE IF death > today THEN "Death date cannot be in the future."
    ELSE ""

\* update_actor, the checks between parsing and the write
update_actor_checks(birth_date, death, country) ==
    IF birth_date > today THEN "Birth date cannot be in the future."
    ELSE IF birth_date > death THEN "Birth date cannot bigger than death"
    ELSE IF death > today THEN "Death date cannot be in the future."
    ELSE IF country \notin all_countries
         THEN "This country does not exists, please write full name of your country"
    ELSE ""

\* the row add_actor and update_actor build from the parsed form; the
\* column death is nullable: <<>> is NULL, <<d>> the date d
ActorRow(form) ==
    [full_name |-> form.full_name, birth_date |-> Strptime(form.birth_date),
     sex |-> form.sex, country |-> form.country, death |-> <<Strptime(form.death)>>]

\* GET /actors/actor/<actor_id>/
Actors_detail(w, actor_id) ==
    /\ pc[w] = "idle"
    /\ UNCHANGED <<today, actors, films, films_actors, uuid>>
    /\ IF actor_id \notin DOMAIN actors
       THEN Answer(w, actor_id, 0, NotFound)
       ELSE Answer(w, actor_id, 0,
                   Rendered([actor |-> actors[actor_id],
                             films |-> {r.film_id : r \in RowsOfActor(actor_id)}]))

\* POST /actors/add/
Actors_add_actor(w, form) ==
    /\ pc[w] = "idle"
    /\ UNCHANGED <<today, films, films_actors>>
    /\ IF StrptimeRaises(form.birth_date) \/ StrptimeRaises(form.death)
       THEN Answer(w, 0, 0, ServerError("ValueError")) /\ UNCHANGED <<actors, uuid>>
       ELSE LET failed == add_actor_checks(Strptime(form.birth_date),
                                           Strptime(form.death), form.country)
                id == uuid.actors + 1
            IN IF failed # ""
               THEN Answer(w, 0, 0, BadRequest(failed)) /\ UNCHANGED <<actors, uuid>>
               ELSE \/ /\ uuid.actors < MaxActors
                       /\ actors' = Put(actors, id, ActorRow(form))
                       /\ uuid' = [uuid EXCEPT !.actors = id]
                       /\ Answer(w, id, 0, Redirect(id))
                    \/ /\ Answer(w, 0, 0, ServerError("OperationalError"))  \* the commit fails
                       /\ UNCHANGED <<actors, uuid>>

\* POST /actors/update/<actor_id>: the lookup
Actors_update_actor_select(w, actor_id) ==
    /\ pc[w] = "idle"
    /\ UNCHANGED <<today, actors, films, films_actors, uuid>>
    /\ IF actor_id \notin DOMAIN actors
       THEN Answer(w, actor_id, 0, NotFound)
       ELSE Goto(w, "update_actor", [NoRequest EXCEPT !.actor_id = actor_id])

\* mutant: the UPDATE has no WHERE clause and rewrites every row
Actors_update_actor_everywhere(w, form) ==
    /\ pc[w] = "update_actor"
    /\ UNCHANGED <<today, films, films_actors, uuid>>
    /\ IF StrptimeRaises(form.birth_date) \/ StrptimeRaises(form.death)
       THEN Respond(w, ServerError("ValueError")) /\ UNCHANGED actors
       ELSE LET failed == update_actor_checks(Strptime(form.birth_date),
                                              Strptime(form.death), form.country)
            IN IF failed # ""
               THEN Respond(w, BadRequest(failed)) /\ UNCHANGED actors
               ELSE /\ actors' = [k \in DOMAIN actors |-> ActorRow(form)]
                    /\ Respond(w, Redirect(req[w].actor_id))

\* POST /actors/update/<actor_id>: parsing, the checks, UPDATE and commit
Actors_update_actor(w, form) ==
    /\ pc[w] = "update_actor"
    /\ UNCHANGED <<today, films, films_actors, uuid>>
    /\ IF StrptimeRaises(form.birth_date) \/ StrptimeRaises(form.death)
       THEN Respond(w, ServerError("ValueError")) /\ UNCHANGED actors
       ELSE LET failed == update_actor_checks(Strptime(form.birth_date),
                                              Strptime(form.death), form.country)
                id == req[w].actor_id
            IN IF failed # ""
               THEN Respond(w, BadRequest(failed)) /\ UNCHANGED actors
               ELSE /\ actors' = IF id \in DOMAIN actors
                                 THEN Put(actors, id, ActorRow(form))
                                 ELSE actors    \* UPDATE matches no row
                    /\ Respond(w, Redirect(id))

\* /actors/delete/<actor_id>: db.session.get
Actors_delete_actor_get(w, actor_id) ==
    /\ pc[w] = "idle"
    /\ UNCHANGED <<today, actors, films, films_actors, uuid>>
    /\ IF actor_id \notin DOMAIN actors
       THEN Answer(w, actor_id, 0, NotFound)
       ELSE Goto(w, "delete_actor_execute", [NoRequest EXCEPT !.actor_id = actor_id])

\* mutant: the DELETE of the associations is committed on its own
Actors_delete_actor_execute_committed(w) ==
    /\ pc[w] = "delete_actor_execute"
    /\ RowsOfActor(req[w].actor_id) \cap LockedByOther(w) = {}
    /\ Goto(w, "delete_actor_commit", req[w])
    /\ films_actors' = films_actors \ RowsOfActor(req[w].actor_id)
    /\ UNCHANGED <<today, actors, films, uuid>>

\* /actors/delete/<actor_id>: DELETE FROM films_actors WHERE actor_id = ...,
\* executed inside the open transaction
Actors_delete_actor_execute(w) ==
    /\ pc[w] = "delete_actor_execute"
    /\ RowsOfActor(req[w].actor_id) \cap LockedByOther(w) = {}
    /\ Goto(w, "delete_actor_commit",
            [req[w] EXCEPT !.rows = RowsOfActor(req[w].actor_id)])
    /\ UNCHANGED <<today, actors, films, films_actors, uuid>>

\* /actors/delete/<actor_id>: db.session.delete(actor); db.session.commit()
Actors_delete_actor_commit(w) ==
    LET id == req[w].actor_id
        deleted == req[w].rows
    IN /\ pc[w] = "delete_actor_commit"
       /\ (RowsOfActor(id) \ deleted) \cap LockedByOther(w) = {}
       /\ UNCHANGED <<today, films, uuid>>
       /\ IF id \in DOMAIN actors /\ ActorStillReferenced(id, deleted)
          THEN Respond(w, ServerError("IntegrityError")) /\ UNCHANGED <<actors, films_actors>>
          ELSE /\ actors' = Remove(actors, id)
               /\ films_actors' = films_actors \ deleted
               /\ Respond(w, Redirect(0))

\* ------------------------------------------------------------ views/films.py
\* a text field is modelled by its length
LengthInputs(limit) == {limit - 1, limit, limit + 1}
StatusInputs == {"completed", "continues", "finished"}

FilmForm(t, d, g, y, c, s) ==
    [title |-> t, description |-> d, country |-> c, year |-> y, rating |-> 8,
     status |-> s, genre |-> g]

AllFilmForms ==
    {FilmForm(t, d, g, y, c, s) :
        t \in LengthInputs(MAX_TITLE_LENGTH), d \in LengthInputs(MAX_DESCRIPTION_LENGTH),
        g \in LengthInputs(MAX_GENRE_LENGTH), y \in YearInputs, c \in CountryInputs,
        s \in StatusInputs}
\* one acceptable and one unacceptable submission
FewFilmForms ==
    {FilmForm(MAX_TITLE_LENGTH - 1, MAX_DESCRIPTION_LENGTH - 1, MAX_GENRE_LENGTH - 1,
              <<YearOf(today)>>, c, "completed") : c \in CountryInputs}

\* mutant: the check of the year against the current year is missing
add_film_checks_year_unchecked(title, description, genre, year, country, status) ==
    IF title >= MAX_TITLE_LENGTH
    THEN "Length of title must not be greater than 200 symbols"
    ELSE IF description >= MAX_DESCRIPTION_LENGTH
    THEN "Length of description must not be greater than 1000 symbols"
    ELSE IF genre >= MAX_GENRE_LENGTH
    THEN "Length of genre must not be greater than 150 symbols"
    ELSE IF IntRaises(year)
    THEN "ValueError"
    ELSE IF country \notin all_countries
    THEN "This country does not exists, please write full name of your country"
    ELSE IF status \notin valid_statuses
    THEN "This status doesn't exist, use one of these: completed, continues, announcement"
    ELSE ""

\* add_film, the checks in the order of the code; int(year) raises
\* ValueError on an empty year once the length checks have passed
add_film_checks(title, description, genre, year, country, status) ==
    IF title >= MAX_TITLE_LENGTH
    THEN "Length of title must not be greater than 200 symbols"
    ELSE IF description >= MAX_DESCRIPTION_LENGTH
    THEN "Length of description must not be greater than 1000 symbols"
    ELSE IF genre >= MAX_GENRE_LENGTH
    THEN "Length of genre must not be greater than 150 symbols"
    ELSE IF IntRaises(year)
    THEN "ValueError"
    ELSE IF IntOf(year) > YearOf(today)
    THEN "Film's year cannot be in the future."
    ELSE IF country \notin all_countries
    THEN "This country does not exists, please write full name of your country"
    ELSE IF status \notin valid_statuses
    THEN "This status doesn't exist, use one of these: completed, continues, announcement"
    ELSE ""

\* update_film, the same checks as written in update_film
update_film_checks(title, description, genre, year, country, status) ==
    IF title >= MAX_TITLE_LENGTH
    THEN "Length of title must not be greater than 200 symbols"
    ELSE IF description >= MAX_DESCRIPTION_LENGTH
    THEN "Length of description must not be greater than 1000 symbols"
    ELSE IF genre >= MAX_GENRE_LENGTH
    THEN "Length of genre must not be greater than 150 symbols"
    ELSE IF IntRaises(year)
    THEN "ValueError"
    ELSE IF IntOf(year) > YearOf(today)
    THEN "Film's year cannot be in the future."
    ELSE IF country \notin all_countries
    THEN "This country does not exists, please write full name of your country"
    ELSE IF status \notin valid_statuses
    THEN "This status does not exists, please one of this: completed, continues, announcement"
    ELSE ""

\* the row add_film and update_film write; the Integer column holds int(year)
FilmRow(form) ==
    [title |-> form.title, description |-> form.description, year |-> IntOf(form.year),
     rating |-> form.rating, country |-> form.country, status |-> form.status,
     genre |-> form.genre]

\* utils.get_rating_movie(title): what the rating service answers is the
\* environment's choice; <<>> is None, <<json>> the decoded body
LookupOutcomes == {"not OK", "no match", "match"}
get_rating_movie(outcome) ==
    IF outcome = "not OK" THEN <<>>
    ELSE IF outcome = "no match" THEN <<[docs |-> <<>>]>>
    ELSE <<[docs |-> <<[rating |-> [kp |-> 7]]>>]>>

\* GET /films/film/<film_id>/
Films_detail(w, film_id, outcome) ==
    /\ pc[w] = "idle"
    /\ UNCHANGED <<today, actors, films, films_actors, uuid>>
    /\ IF film_id \notin DOMAIN films
       THEN Answer(w, 0, film_id, NotFound)
       ELSE LET movie_data == get_rating_movie(outcome)
            IN IF movie_data = <<>>
               THEN Answer(w, 0, film_id, ServerError("TypeError"))  \* None['docs']
               ELSE Answer(w, 0, film_id,
                      Rendered([film |-> films[film_id],
                                actors |-> {r.actor_id : r \in RowsOfFilm(film_id)},
                                imbd_rating |->
                                    IF movie_data[1].docs # <<>>
                                    THEN <<movie_data[1].docs[1].rating.kp>>
                                    ELSE <<>>]))

\* POST /films/add/
Films_add_film(w, form) ==
    /\ pc[w] = "idle"
    /\ UNCHANGED <<today, actors, films_actors>>
    /\ LET failed == add_film_checks(form.title, form.description, form.genre,
                                     form.year, form.country, form.status)
           id == uuid.films + 1
       IN IF failed = "ValueError"
          THEN Answer(w, 0, 0, ServerError("ValueError")) /\ UNCHANGED <<films, uuid>>
          ELSE IF failed # ""
          THEN Answer(w, 0, 0, BadRequest(failed)) /\ UNCHANGED <<films, uuid>>
          ELSE \/ /\ uuid.films < MaxFilms
                  /\ films' = Put(films, id, FilmRow(form))
                  /\ uuid' = [uuid EXCEPT !.films = id]
                  /\ Answer(w, 0, id, Redirect(id))
               \/ /\ Answer(w, 0, 0, ServerError("OperationalError"))  \* the commit fails
                  /\ UNCHANGED <<films, uuid>>

\* POST /films/update/<film_id>: the lookup
Films_update_film_select(w, film_id) ==
    /\ pc[w] = "idle"
    /\ UNCHANGED <<today, actors, films, films_actors, uuid>>
    /\ IF film_id \notin DOMAIN films
       THEN Answer(w, 0, film_id, NotFound)
       ELSE Goto(w, "update_film", [NoRequest EXCEPT !.film_id = film_id])

\* mutant: the UPDATE is executed and committed before the checks
Films_update_film_early(w, form) ==
    /\ pc[w] = "update_film"
    /\ UNCHANGED <<today, actors, films_actors, uuid>>
    /\ LET failed == update_film_checks(form.title, form.description, form.genre,
                                        form.year, form.country, form.status)
           id == req[w].film_id
       IN IF IntRaises(form.year)
          THEN Respond(w, ServerError("ValueError")) /\ UNCHANGED films
          ELSE /\ films' = IF id \in DOMAIN films
                           THEN Put(films, id, FilmRow(form))
                           ELSE films
               /\ Respond(w, IF failed # "" THEN BadRequest(failed) ELSE Redirect(id))

\* POST /films/update/<film_id>: the checks, UPDATE and commit
Films_update_film(w, form) ==
    /\ pc[w] = "update_film"
    /\ UNCHANGED <<today, actors, films_actors, uuid>>
    /\ LET failed == update_film_checks(form.title, form.description, form.genre,
                                        form.year, form.country, form.status)
           id == req[w].film_id
       IN IF failed = "ValueError"
          THEN Respond(w, ServerError("ValueError")) /\ UNCHANGED films
          ELSE IF failed # ""
          THEN Respond(w, BadRequest(failed)) /\ UNCHANGED films
          ELSE /\ films' = IF id \in DOMAIN films
                           THEN Put(films, id, FilmRow(form))
                           ELSE films    \* UPDATE matches no row
               /\ Respond(w, Redirect(id))

\* /films/delete/<film_id>: db.session.get
Films_delete_film_get(w, film_id) ==
    /\ pc[w] = "idle"
    /\ UNCHANGED <<today, actors, films, films_actors, uuid>>
    /\ IF film_id \notin DOMAIN films
       THEN Answer(w, 0, film_id, NotFound)
       ELSE Goto(w, "delete_film_execute", [NoRequest EXCEPT !.film_id = film_id])

\* /films/delete/<film_id>: DELETE FROM films_actors WHERE film_id = ...
Films_delete_film_execute(w) ==
    /\ pc[w] = "delete_film_execute"
    /\ RowsOfFilm(req[w].film_id) \cap LockedByOther(w) = {}
    /\ Goto(w, "delete_film_commit",
            [req[w] EXCEPT !.rows = RowsOfFilm(req[w].film_id)])
    /\ UNCHANGED <<today, actors, films, films_actors, uuid>>

\* /films/delete/<film_id>: db.session.delete(film); db.session.commit()
Films_delete_film_commit(w) ==
    LET id == req[w].film_id
        deleted == req[w].rows
    IN /\ pc[w] = "delete_film_commit"
       /\ (RowsOfFilm(id) \ deleted) \cap LockedByOther(w) = {}
       /\ UNCHANGED <<today, actors, uuid>>
       /\ IF id \in DOMAIN films /\ FilmStillReferenced(id, deleted)
          THEN Respond(w, ServerError("IntegrityError")) /\ UNCHANGED <<films, films_actors>>
          ELSE /\ films' = Remove(films, id)
               /\ films_actors' = films_actors \ deleted
               /\ Respond(w, Redirect(0))

\* ------------------------------------------------------------ associations
\* mutant: the INSERT is checked against the foreign keys only
InsertLink_unconstrained(w, actor_id, film_id, target) ==
    /\ RowsOfPair(actor_id, film_id) \cap LockedByOther(w) = {}
    /\ UNCHANGED <<today, actors, films>>
    /\ IF ForeignKeyViolated(actor_id, film_id)
       THEN Respond(w, ServerError("IntegrityError")) /\ UNCHANGED <<films_actors, uuid>>
       ELSE LET id == uuid.films_actors + 1
            IN /\ id <= MaxLinks
               /\ films_actors' = films_actors \cup
                      {[id |-> id, film_id |-> film_id, actor_id |-> actor_id]}
               /\ uuid' = [uuid EXCEPT !.films_actors = id]
               /\ Respond(w, Redirect(target))

\* FilmToActor(film_id=..., actor_id=...); db.session.add; db.session.commit:
\* the INSERT waits for an uncommitted deletion of a row of the same pair,
\* then the store checks its constraints
InsertLink(w, actor_id, film_id, target) ==
    /\ RowsOfPair(actor_id, film_id) \cap LockedByOther(w) = {}
    /\ UNCHANGED <<today, actors, films>>
    /\ IF ForeignKeyViolated(actor_id, film_id) \/ UniqueViolated(actor_id, film_id)
       THEN Respond(w, ServerError("IntegrityError")) /\ UNCHANGED <<films_actors, uuid>>
       ELSE LET id == uuid.films_actors + 1
            IN /\ id <= MaxLinks
               /\ films_actors' = films_actors \cup
                      {[id |-> id, film_id |-> film_id, actor_id |-> actor_id]}
               /\ uuid' = [uuid EXCEPT !.films_actors = id]
               /\ Respond(w, Redirect(target))

\* mutant: the already-linked lookup finds nothing
SelectLink_none(actor_id, film_id) == {}

\* db.session.scalar(select(FilmToActor).where(actor_id ==, film_id ==)):
\* the first row found, if any
SelectLink(actor_id, film_id) ==
    IF RowsOfPair(actor_id, film_id) = {} THEN {}
    ELSE {CHOOSE r \in RowsOfPair(actor_id, film_id) :
            \A q \in RowsOfPair(actor_id, film_id) : r.id <= q.id}

\* mutant: the DELETE matches on the actor alone
DeleteLink_of_actor(w, target) ==
    /\ req[w].rows \cap LockedByOther(w) = {}
    /\ films_actors' = films_actors \ RowsOfActor(req[w].actor_id)
    /\ Respond(w, Redirect(target))
    /\ UNCHANGED <<today, actors, films, uuid>>

\* db.session.delete(film_to_actor); db.session.commit(): DELETE by primary
\* key, which waits for an uncommitted deletion of the same row and matches
\* no row when it is gone
DeleteLink(w, target) ==
    /\ req[w].rows \cap LockedByOther(w) = {}
    /\ films_actors' = films_actors \ req[w].rows
    /\ Respond(w, Redirect(target))
    /\ UNCHANGED <<today, actors, films, uuid>>

\* POST /actors/add_film/<actor_id>: the actor lookup
Actors_add_film_select(w, actor_id) ==
    /\ pc[w] = "idle"
    /\ UNCHANGED <<today, actors, films, films_actors, uuid>>
    /\ IF actor_id \notin DOMAIN actors
       THEN Answer(w, actor_id, 0, NotFound)
       ELSE Goto(w, "actors_add_film", [NoRequest EXCEPT !.actor_id = actor_id])

\* mutant: the film lookup's result is never tested
Actors_add_film_check_unchecked(w, film_id) ==
    /\ pc[w] = "actors_add_film"
    /\ UNCHANGED <<today, actors, films, films_actors, uuid>>
    /\ IF SelectLink(req[w].actor_id, film_id) # {}
       THEN Answer(w, req[w].actor_id, film_id, Conflict)
       ELSE Goto(w, "actors_add_film_commit", [req[w] EXCEPT !.film_id = film_id])

\* POST /actors/add_film/<actor_id>: the film lookup and the already-linked check
Actors_add_film_check(w, film_id) ==
    /\ pc[w] = "actors_add_film"
    /\ UNCHANGED <<today, actors, films, films_actors, uuid>>
    /\ IF SelectLink(req[w].actor_id, film_id) # {}
       THEN Answer(w, req[w].actor_id, film_id, Conflict)
       ELSE IF film_id \notin DOMAIN films
       THEN Answer(w, req[w].actor_id, film_id, NotFound)
       ELSE Goto(w, "actors_add_film_commit", [req[w] EXCEPT !.film_id = film_id])

\* POST /actors/add_film/<actor_id>: the insert and the commit
Actors_add_film_commit(w) ==
    /\ pc[w] = "actors_add_film_commit"
    /\ InsertLink(w, req[w].actor_id, req[w].film_id, req[w].actor_id)

\* POST /actors/delete_film/<actor_id>/<film_id>: the lookup
Actors_delete_film_select(w, actor_id, film_id) ==
    /\ pc[w] = "idle"
    /\ UNCHANGED <<today, actors, films, films_actors, uuid>>
    /\ IF SelectLink(actor_id, film_id) = {}
       THEN Answer(w, actor_id, film_id, Redirect(actor_id))
       ELSE Goto(w, "actors_delete_film",
                 [actor_id |-> actor_id, film_id |-> film_id,
                  rows |-> SelectLink(actor_id, film_id)])

\* POST /actors/delete_film/<actor_id>/<film_id>: the delete and the commit
Actors_delete_film_commit(w) ==
    /\ pc[w] = "actors_delete_film"
    /\ DeleteLink(w, req[w].actor_id)

\* POST /films/add_actor/<film_id>: the film lookup
Films_add_actor_select(w, film_id) ==
    /\ pc[w] = "idle"
    /\ UNCHANGED <<today, actors, films, films_actors, uuid>>
    /\ IF film_id \notin DOMAIN films
       THEN Answer(w, 0, film_id, NotFound)
       ELSE Goto(w, "films_add_actor", [NoRequest EXCEPT !.film_id = film_id])

\* POST /films/add_actor/<film_id>: the actor lookup and the already-linked check
Films_add_actor_check(w, actor_id) ==
    /\ pc[w] = "films_add_actor"
    /\ UNCHANGED <<today, actors, films, films_actors, uuid>>
    /\ IF actor_id \notin DOMAIN actors
       THEN Answer(w, actor_id, req[w].film_id, NotFound)
       ELSE IF SelectLink(actor_id, req[w].film_id) # {}
       THEN Answer(w, actor_id, req[w].film_id, Conflict)
       ELSE Goto(w, "films_add_actor_commit", [req[w] EXCEPT !.actor_id = actor_id])

\* POST /films/add_actor/<film_id>: the insert and the commit
Films_add_actor_commit(w) ==
    /\ pc[w] = "films_add_actor_commit"
    /\ InsertLink(w, req[w].actor_id, req[w].film_id, req[w].film_id)

\* POST /films/delete_actor/<film_id>/<actor_id>: the lookup
Films_delete_actor_select(w, film_id, actor_id) ==
    /\ pc[w] = "idle"
    /\ UNCHANGED <<today, actors, films, films_actors, uuid>>
    /\ IF SelectLink(actor_id, film_id) = {}
       THEN Answer(w, actor_id, film_id, Redirect(film_id))
       ELSE Goto(w, "films_delete_actor",
                 [actor_id |-> actor_id, film_id |-> film_id,
                  rows |-> SelectLink(actor_id, film_id)])

\* POST /films/delete_actor/<film_id>/<actor_id>: the delete and the commit
Films_delete_actor_commit(w) ==
    /\ pc[w] = "films_delete_actor"
    /\ DeleteLink(w, req[w].film_id)

\* ------------------------------------------------------------ the clock
Tick ==
    /\ today < MaxDay
    /\ today' = today + 1
    /\ UNCHANGED <<actors, films, films_actors, uuid, pc, req, resp>>

Init ==
    /\ today = StartDay
    /\ actors = <<>>
    /\ films = <<>>
    /\ films_actors = {}
    /\ uuid = [actors |-> 0, films |-> 0, films_actors |-> 0]
    /\ pc = [w \in Workers |-> "idle"]
    /\ req = [w \in Workers |-> NoRequest]
    /\ resp = [w \in Workers |-> NoResponse]

\* ------------------------------------------------------------ specifications
\* one step of a request of views/actors.py on the actors table
ActorStep(w, forms) ==
    \/ \E form \in forms : Actors_add_actor(w, form)
    \/ \E id \in ActorIds : Actors_update_actor_select(w, id)
    \/ \E form \in forms : Actors_update_actor(w, form)
    \/ \E id \in ActorIds : Actors_delete_actor_get(w, id)
    \/ Actors_delete_actor_execute(w)
    \/ Actors_delete_actor_commit(w)

\* one step of a request of views/films.py on the films table
FilmStep(w, forms) ==
    \/ \E form \in forms : Films_add_film(w, form)
    \/ \E id \in FilmIds : Films_update_film_select(w, id)
    \/ \E form \in forms : Films_update_film(w, form)
    \/ \E id \in FilmIds : Films_delete_film_get(w, id)
    \/ Films_delete_film_execute(w)
    \/ Films_delete_film_commit(w)

\* a detail page, which reads and writes nothing
DetailStep(w) ==
    \/ \E id \in ActorIds : Actors_detail(w, id)
    \/ \E id \in FilmIds, outcome \in LookupOutcomes : Films_detail(w, id, outcome)

\* one step of a link or unlink request, from either side
LinkStep(w) ==
    \/ \E id \in ActorIds : Actors_add_film_select(w, id)
    \/ \E id \in FilmIds : Actors_add_film_check(w, id)
    \/ Actors_add_film_commit(w)
    \/ \E a \in ActorIds, f \in FilmIds : Actors_delete_film_select(w, a, f)
    \/ Actors_delete_film_commit(w)
    \/ \E id \in FilmIds : Films_add_actor_select(w, id)
    \/ \E id \in ActorIds : Films_add_actor_check(w, id)
    \/ Films_add_actor_commit(w)
    \/ \E f \in FilmIds, a \in ActorIds : Films_delete_actor_select(w, f, a)
    \/ Films_delete_actor_commit(w)

OthersIdle(w) == \A v \in Workers \ {w} : pc[v] = "idle"

\* Spec: the processing model of the application, one request at a time
\* (a request runs from its first step to its response before the next
\* starts), every handler, while the clock advances.
Next ==
    \/ \E w \in Workers :
        /\ OthersIdle(w)
        /\ \/ ActorStep(w, FewActorForms)
           \/ FilmStep(w, FewFilmForms)
           \/ LinkStep(w)
           \/ DetailStep(w)
           \/ DbFail(w)
           \/ Return(w)
    \/ Tick

Spec == Init /\ [][Next]_vars

\* ConcurrentSpec: the requests of the workers interleave step by step
\* (a threaded or multi-process deployment over one database).
ConcurrentNext ==
    \E w \in Workers :
        \/ ActorStep(w, FewActorForms)
        \/ FilmStep(w, FewFilmForms)
        \/ LinkStep(w)
        \/ DbFail(w)
        \/ Return(w)

ConcurrentSpec == Init /\ [][ConcurrentNext]_vars

\* ActorSpec: the actor handlers, one request at a time, over every
\* combination of submitted field values.
ActorNext ==
    \/ \E w \in Workers :
        /\ OthersIdle(w)
        /\ \/ ActorStep(w, AllActorForms)
           \/ \E id \in ActorIds : Actors_detail(w, id)
           \/ DbFail(w)
           \/ Return(w)
    \/ Tick

ActorSpec == Init /\ [][ActorNext]_vars

\* FilmSpec: the film handlers, one request at a time, over every
\* combination of submitted field values.
FilmNext ==
    \/ \E w \in Workers :
        /\ OthersIdle(w)
        /\ \/ FilmStep(w, AllFilmForms)
           \/ \E id \in FilmIds, outcome \in LookupOutcomes : Films_detail(w, id, outcome)
           \/ DbFail(w)
           \/ Return(w)
    \/ Tick

FilmSpec == Init /\ [][FilmNext]_vars

\* ================================================================ claims

\* C1: in every reachable state, whatever sequence of create, update,
\* delete, link and unlink requests led to it and however the requests were
\* interleaved, films_actors holds at most one row for a pair (actor, film).
C1_AtMostOneRowPerPair ==
    \A r \in films_actors, q \in films_actors :
        (r.actor_id = q.actor_id /\ r.film_id = q.film_id) => r = q

\* C1 witness: a pair is linked by its one row and a further link request
\* for that pair has just been refused.
C1_Witness ==
    \E w \in Workers :
        /\ pc[w] = "done"
        /\ resp[w] = Conflict
        /\ Cardinality(RowsOfPair(req[w].actor_id, req[w].film_id)) = 1

\* C2: with requests served one at a time, for an existing actor A and film
\* F: a link request that finds the pair not linked goes on to its insert,
\* the insert succeeds and creates the one row of (A, F); a link request
\* that finds the pair linked, from the actor side or the film side, is
\* answered with the conflict error and leaves films_actors unchanged, with
\* exactly one row for (A, F).
C2_Linked(w, a, f) ==
    /\ resp'[w] = Conflict
    /\ films_actors' = films_actors
    /\ Cardinality(RowsOfPair(a, f)) = 1

C2_Inserted(w, a, f, target) ==
    /\ RowsOfPair(a, f) = {}
    /\ resp'[w] = Redirect(target)
    /\ \E r \in films_actors' :
        /\ r.actor_id = a /\ r.film_id = f
        /\ r \notin films_actors
        /\ films_actors' = films_actors \cup {r}

C2_SecondLinkConflicts ==
    [][\A w \in Workers :
        /\ \A f \in FilmIds :
            Actors_add_film_check(w, f) /\ f \in DOMAIN films =>
                IF RowsOfPair(req[w].actor_id, f) # {}
                THEN C2_Linked(w, req[w].actor_id, f)
                ELSE pc'[w] = "actors_add_film_commit"
        /\ \A a \in ActorIds :
            Films_add_actor_check(w, a) /\ a \in DOMAIN actors =>
                IF RowsOfPair(a, req[w].film_id) # {}
                THEN C2_Linked(w, a, req[w].film_id)
                ELSE pc'[w] = "films_add_actor_commit"
        /\ Actors_add_film_commit(w) =>
                C2_Inserted(w, req[w].actor_id, req[w].film_id, req[w].actor_id)
        /\ Films_add_actor_commit(w) =>
                C2_Inserted(w, req[w].actor_id, req[w].film_id, req[w].film_id)
    ]_vars

\* C2 witness: the only row ever inserted links a pair, and a second link
\* request for that pair has been answered with the conflict error.
C2_Witness ==
    \E w \in Workers :
        /\ pc[w] = "done"
        /\ resp[w] = Conflict
        /\ uuid.films_actors = 1
        /\ films_actors = {[id |-> 1, film_id |-> req[w].film_id, actor_id |-> req[w].actor_id]}

\* C3: no orphaned links: in every reachable state, whatever sequence of
\* requests led to it and however they were interleaved, every row of
\* films_actors references an actor row and a film row that exist.
C3_NoOrphanedLinks ==
    \A r \in films_actors : r.actor_id \in DOMAIN actors /\ r.film_id \in DOMAIN films

\* C3 witness: a delete request has just removed an actor or a film
\* together with the rows that referenced it, and other rows remain.
C3_Witness ==
    \E w \in Workers :
        /\ pc[w] = "done"
        /\ resp[w] = Redirect(0)
        /\ req[w].rows # {}
        /\ req[w].rows \cap films_actors = {}
        /\ films_actors # {}

\* C4: with requests served one at a time, the commit of a delete request
\* for an existing actor (film) X succeeds; after it no actor (film) row
\* has identifier X and no row of films_actors references X, while every
\* other actor, film and films_actors row is as before; from then on X never
\* names a row again and a detail request for X is answered not-found.
C4_ActorDeleted(w, X) ==
    /\ X \in DOMAIN actors
    /\ resp'[w] = Redirect(0)
    /\ DOMAIN actors' = (DOMAIN actors) \ {X}
    /\ \A k \in DOMAIN actors' : actors'[k] = actors[k]
    /\ films' = films
    /\ films_actors' = {r \in films_actors : r.actor_id # X}

C4_FilmDeleted(w, X) ==
    /\ X \in DOMAIN films
    /\ resp'[w] = Redirect(0)
    /\ DOMAIN films' = (DOMAIN films) \ {X}
    /\ \A k \in DOMAIN films' : films'[k] = films[k]
    /\ actors' = actors
    /\ films_actors' = {r \in films_actors : r.film_id # X}

C4_DeleteRemovesEntityAndLinks ==
    [][\A w \in Workers :
        /\ Actors_delete_actor_commit(w) => C4_ActorDeleted(w, req[w].actor_id)
        /\ Films_delete_film_commit(w) => C4_FilmDeleted(w, req[w].film_id)
        /\ \A X \in ActorIds :
            X <= uuid.actors /\ X \notin DOMAIN actors =>
                /\ X \notin DOMAIN actors'
                /\ Actors_detail(w, X) => resp'[w] = NotFound
        /\ \A X \in FilmIds :
            X <= uuid.films /\ X \notin DOMAIN films =>
                /\ X \notin DOMAIN films'
                /\ \A o \in LookupOutcomes : Films_detail(w, X, o) => resp'[w] = NotFound
    ]_vars

\* C4 witness: an actor has just been deleted together with the rows that
\* referenced it, and a row of another actor is still there.
C4_Witness ==
    \E w \in Workers :
        /\ pc[w] = "done"
        /\ resp[w] = Redirect(0)
        /\ req[w].actor_id # 0
        /\ req[w].actor_id \notin DOMAIN actors
        /\ req[w].rows # {}
        /\ \E r \in films_actors : r.actor_id # req[w].actor_id

\* C5: deleting an actor or a film is one unit of work.  Every step of a
\* delete request, in any interleaving and failing steps included, leaves
\* the committed tables unchanged, except the commit that succeeds, which
\* removes the entity and every row referencing it at once; a delete
\* request answered with an error has changed nothing.
C5_DeleteSteps == {"delete_actor_execute", "delete_actor_commit",
                   "delete_film_execute", "delete_film_commit"}

C5_DeleteIsOneUnit ==
    [][\A w \in Workers :
        (pc[w] \in C5_DeleteSteps /\ pc'[w] # pc[w]) =>
            IF pc'[w] = "done" /\ resp'[w] = Redirect(0)
            THEN IF req[w].film_id = 0
                 THEN /\ req[w].actor_id \notin DOMAIN actors'
                      /\ \A r \in films_actors' : r.actor_id # req[w].actor_id
                 ELSE /\ req[w].film_id \notin DOMAIN films'
                      /\ \A r \in films_actors' : r.film_id # req[w].film_id
            ELSE UNCHANGED store
    ]_vars

\* C5 witness: a delete request for an actor failed after its DELETE of the
\* associations had run (answered 500); the actor and those rows are all
\* still in the committed tables.
C5_Witness ==
    \E w \in Workers :
        /\ pc[w] = "done"
        /\ resp[w].status = 500
        /\ req[w].film_id = 0
        /\ req[w].actor_id \in DOMAIN actors
        /\ req[w].rows # {}
        /\ req[w].rows \subseteq films_actors

\* C6: with requests served one at a time, a link request from the actor
\* side or the film side is answered not-found when the actor or the film
\* does not exist, and then creates no row and leaves the tables unchanged;
\* a row is added to films_actors only for an actor and a film that both
\* exist and are not yet linked.
C6_NotFoundUnchanged(w) == resp'[w] = NotFound /\ UNCHANGED store

C6_LinkNeedsBothEntities ==
    [][/\ \A w \in Workers :
            /\ \A a \in ActorIds :
                /\ Actors_add_film_select(w, a) /\ a \notin DOMAIN actors
                        => C6_NotFoundUnchanged(w)
                /\ Films_add_actor_check(w, a) /\ a \notin DOMAIN actors
                        => C6_NotFoundUnchanged(w)
            /\ \A f \in FilmIds :
                /\ Films_add_actor_select(w, f) /\ f \notin DOMAIN films
                        => C6_NotFoundUnchanged(w)
                /\ Actors_add_film_check(w, f) /\ f \notin DOMAIN films
                        => C6_NotFoundUnchanged(w)
       /\ \A r \in films_actors' \ films_actors :
            /\ r.actor_id \in DOMAIN actors
            /\ r.film_id \in DOMAIN films
            /\ RowsOfPair(r.actor_id, r.film_id) = {}
    ]_vars

\* C6 witness: a link request from the actor side that named a film that
\* does not exist has been answered not-found, with an actor and another
\* film linked.
C6_Witness ==
    \E w \in Workers :
        /\ pc[w] = "done"
        /\ resp[w] = NotFound
        /\ req[w].actor_id \in DOMAIN actors
        /\ req[w].film_id # 0
        /\ req[w].film_id \notin DOMAIN films
        /\ films_actors # {}

\* C7: with requests served one at a time, an unlink request for a pair
\* that is not linked is answered with the usual redirect, no error, and
\* leaves films_actors, actors and films unchanged; for a linked pair it
\* removes the one row of that pair and nothing else.
C7_Removed(w, a, f) ==
    /\ resp'[w].status = 302
    /\ Cardinality(RowsOfPair(a, f)) = 1
    /\ films_actors' = films_actors \ RowsOfPair(a, f)
    /\ actors' = actors
    /\ films' = films

C7_UnlinkFrame ==
    [][\A w \in Workers :
        /\ \A a \in ActorIds, f \in FilmIds :
            /\ Actors_delete_film_select(w, a, f) =>
                /\ UNCHANGED store
                /\ IF RowsOfPair(a, f) = {}
                   THEN resp'[w] = Redirect(a)
                   ELSE pc'[w] = "actors_delete_film"
            /\ Films_delete_actor_select(w, f, a) =>
                /\ UNCHANGED store
                /\ IF RowsOfPair(a, f) = {}
                   THEN resp'[w] = Redirect(f)
                   ELSE pc'[w] = "films_delete_actor"
        /\ Actors_delete_film_commit(w) => C7_Removed(w, req[w].actor_id, req[w].film_id)
        /\ Films_delete_actor_commit(w) => C7_Removed(w, req[w].actor_id, req[w].film_id)
    ]_vars

\* C7 witness: an unlink request for an existing actor and film that are
\* not linked has been answered with a redirect, other rows being present.
C7_Witness ==
    \E w \in Workers :
        /\ pc[w] = "done"
        /\ resp[w].status = 302
        /\ req[w].actor_id \in DOMAIN actors
        /\ req[w].film_id \in DOMAIN films
        /\ req[w].rows = {}
        /\ RowsOfPair(req[w].actor_id, req[w].film_id) = {}
        /\ films_actors # {}

\* C8: every actor row in the table, written by add_actor or update_actor,
\* has birth_date <= today and, when its death date is set,
\* birth_date <= death <= today.  A create or update whose dates violate
\* this is not accepted and writes nothing (it is answered 400 when both
\* dates are given).  The boundary submission birth_date = death = today,
\* with a recognized country, is accepted and written as submitted.
C8_StoredDates ==
    \A a \in DOMAIN actors :
        /\ actors[a].birth_date <= today
        /\ actors[a].death # <<>> =>
            /\ actors[a].birth_date <= actors[a].death[1]
            /\ actors[a].death[1] <= today

C8_Violates(form) ==
    /\ form.birth_date # <<>>
    /\ \/ form.birth_date[1] > today
       \/ /\ form.death # <<>>
          /\ \/ form.death[1] < form.birth_date[1]
             \/ form.death[1] > today

C8_Refused(w, form) ==
    /\ UNCHANGED <<store, uuid>>
    /\ resp'[w].status # 302
    /\ form.death # <<>> => resp'[w].status = 400

C8_Boundary(form) ==
    /\ form.birth_date = <<today>>
    /\ form.death = <<today>>
    /\ form.country \in all_countries

C8_Accepted(w, id, form) ==
    \/ resp'[w] = ServerError("OperationalError") /\ UNCHANGED store
    \/ /\ resp'[w] = Redirect(id)
       /\ id \in DOMAIN actors'
       /\ actors'[id].birth_date = today
       /\ actors'[id].death = <<today>>
       /\ actors'[id].full_name = form.full_name

C8_ActorDates ==
    /\ []C8_StoredDates
    /\ [][\A w \in Workers : \A form \in AllActorForms :
            /\ C8_Violates(form) /\ Actors_add_actor(w, form) => C8_Refused(w, form)
            /\ C8_Violates(form) /\ Actors_update_actor(w, form) => C8_Refused(w, form)
            /\ C8_Boundary(form) /\ Actors_add_actor(w, form)
                    => C8_Accepted(w, uuid.actors + 1, form)
            /\ C8_Boundary(form) /\ Actors_update_actor(w, form)
                    => C8_Accepted(w, req[w].actor_id, form)
       ]_vars

\* C8, with both boundary cases: what C8_ActorDates states and, besides, a
\* create or update submitting birth_date = today, a recognized country
\* and no death date is accepted and writes the row with its death unset.
C8_BirthTodayAccepted(w, id) ==
    \/ resp'[w] = ServerError("OperationalError") /\ UNCHANGED store
    \/ /\ resp'[w] = Redirect(id)
       /\ id \in DOMAIN actors'
       /\ actors'[id].birth_date = today
       /\ actors'[id].death = <<>>

C8_ActorDatesAndBoundaries ==
    /\ C8_ActorDates
    /\ [][\A w \in Workers : \A n \in {"John Doe", "Jane Smith"} :
            \A c \in CountryInputs \cap all_countries :
                /\ Actors_add_actor(w, ActorForm(n, <<today>>, <<>>, c))
                        => C8_BirthTodayAccepted(w, uuid.actors + 1)
                /\ Actors_update_actor(w, ActorForm(n, <<today>>, <<>>, c))
                        => C8_BirthTodayAccepted(w, req[w].actor_id)
       ]_vars

\* C8 witness: on a day after the first, an actor submitted with
\* birth_date = death = today has been written, while an actor written on
\* an earlier day is in the table.
C8_Witness ==
    \E w \in Workers :
        /\ pc[w] = "done"
        /\ resp[w].status = 302
        /\ req[w].actor_id \in DOMAIN actors
        /\ actors[req[w].actor_id].birth_date = today
        /\ actors[req[w].actor_id].death = <<today>>
        /\ \E a \in DOMAIN actors : actors[a].death # <<>> /\ actors[a].death[1] < today

\* C9: the death date is optional: a create or update submitting a birth
\* date not in the future, a recognized country and no death date
\* succeeds, returns the identifier and stores a row whose death is unset.
C9_Stored(w, id) ==
    resp'[w] # ServerError("OperationalError") =>
        /\ resp'[w] = Redirect(id)
        /\ id \in DOMAIN actors'
        /\ actors'[id].death = <<>>

C9_DeathIsOptional ==
    [][\A w \in Workers : \A form \in AllActorForms :
            (/\ form.death = <<>>
             /\ form.birth_date # <<>>
             /\ form.birth_date[1] <= today
             /\ form.country \in all_countries) =>
                /\ Actors_add_actor(w, form) => C9_Stored(w, uuid.actors + 1)
                /\ Actors_update_actor(w, form) => C9_Stored(w, req[w].actor_id)
    ]_vars

\* C10: every film row in the table, written by add_film or update_film,
\* has year <= the current year, a recognized country and a status among
\* completed, continues, announcement.  A create submitting the year
\* after the current one is answered 400 and writes nothing; a create
\* submitting the current year, the other fields being acceptable, is
\* accepted and written.
C10_StoredFilms ==
    \A f \in DOMAIN films :
        /\ films[f].year <= YearOf(today)
        /\ films[f].country \in all_countries
        /\ films[f].status \in {"completed", "continues", "announcement"}

C10_Acceptable(form) ==
    /\ form.title < 200 /\ form.description < 1000 /\ form.genre < 150
    /\ form.country \in all_countries
    /\ form.status \in {"completed", "continues", "announcement"}

C10_Rejected(w) ==
    /\ resp'[w].status = 400
    /\ UNCHANGED <<store, uuid>>

C10_Accepted(w) ==
    \/ resp'[w] = ServerError("OperationalError") /\ UNCHANGED store
    \/ /\ resp'[w] = Redirect(uuid.films + 1)
       /\ DOMAIN films' = (DOMAIN films) \cup {uuid.films + 1}
       /\ films'[uuid.films + 1].year = YearOf(today)

C10_AddsFilm(w, year, demand) ==
    \E t \in LengthInputs(MAX_TITLE_LENGTH), d \in LengthInputs(MAX_DESCRIPTION_LENGTH),
       g \in LengthInputs(MAX_GENRE_LENGTH), c \in CountryInputs, s \in StatusInputs :
        /\ demand => C10_Acceptable(FilmForm(t, d, g, <<year>>, c, s))
        /\ Films_add_film(w, FilmForm(t, d, g, <<year>>, c, s))

C10_FilmYear ==
    /\ []C10_StoredFilms
    /\ [][\A w \in Workers :
            pc[w] = "idle" /\ pc'[w] = "done" =>
                /\ C10_Rejected(w) \/ ~C10_AddsFilm(w, YearOf(today) + 1, FALSE)
                /\ C10_Accepted(w) \/ ~C10_AddsFilm(w, YearOf(today), TRUE)
       ]_vars

\* C10 witness: after the year has changed, a film submitted with the
\* current year has been written, while a film of an earlier year is in
\* the table.
C10_Witness ==
    \E w \in Workers :
        /\ pc[w] = "done"
        /\ resp[w].status = 302
        /\ req[w].film_id \in DOMAIN films
        /\ films[req[w].film_id].year = YearOf(today)
        /\ YearOf(today) > YearOf(StartDay)
        /\ \E f \in DOMAIN films : films[f].year = YearOf(StartDay)

\* C11: film create and update reject a title, description or genre only
\* when it exceeds its limit: with the year not after the current year, a
\* recognized country and a valid status, a submission whose title has at
\* most 200 characters, description at most 1000 and genre at most 150
\* (the lengths 200, 1000 and 150 included) is accepted, and one with a
\* length of 201, 1001 or 151 is answered 400.
C11_WithinLimits(form) ==
    /\ form.title <= 200
    /\ form.description <= 1000
    /\ form.genre <= 150

C11_OtherFieldsValid(form) ==
    /\ form.year # <<>>
    /\ form.year[1] <= YearOf(today)
    /\ form.country \in all_countries
    /\ form.status \in {"completed", "continues", "announcement"}

C11_Answered(w, form) ==
    IF C11_WithinLimits(form)
    THEN resp'[w].status = 302 \/ resp'[w] = ServerError("OperationalError")
    ELSE resp'[w].status = 400 /\ UNCHANGED store

C11_LengthLimits ==
    [][\A w \in Workers :
        pc[w] \in {"idle", "update_film"} /\ pc'[w] = "done" =>
            \A t \in LengthInputs(MAX_TITLE_LENGTH), d \in LengthInputs(MAX_DESCRIPTION_LENGTH),
               g \in LengthInputs(MAX_GENRE_LENGTH), y \in YearInputs,
               c \in CountryInputs, s \in StatusInputs :
                (/\ C11_OtherFieldsValid(FilmForm(t, d, g, y, c, s))
                 /\ \/ Films_add_film(w, FilmForm(t, d, g, y, c, s))
                    \/ Films_update_film(w, FilmForm(t, d, g, y, c, s)))
                    => C11_Answered(w, FilmForm(t, d, g, y, c, s))
    ]_vars

\* C12: validation is fail-fast in the listed order and precedes any
\* write.  For an actor submission failing more than one of the checks
\* (birth date in the future, death precedes birth, death in the future,
\* unknown country), and for a film submission failing more than one of
\* (title longer than 200, description longer than 1000, genre longer than
\* 150, year after the current year, unknown country, invalid status),
\* create and update answer 400 with the error of the first failing check
\* of the list and write nothing.  (Stated for submissions that give both
\* dates and a year; a submission without a death date is the case of C9.)
C12_ActorFailures(form) ==
    LET birth == form.birth_date[1]
        dead == form.death # <<>>
    IN  <<birth > today,
          dead /\ form.death[1] < birth,
          dead /\ form.death[1] > today,
          form.country \notin all_countries>>

C12_ActorErrors ==
    <<"Birth date cannot be in the future.",
      "Birth date cannot bigger than death",
      "Death date cannot be in the future.",
      "This country does not exists, please write full name of your country">>

C12_FilmFailures(form) ==
    <<form.title > 200,
      form.description > 1000,
      form.genre > 150,
      form.year[1] > YearOf(today),
      form.country \notin all_countries,
      form.status \notin {"completed", "continues", "announcement"}>>

\* the two handlers word the last error differently
C12_FilmErrors ==
    <<{"Length of title must not be greater than 200 symbols"},
      {"Length of description must not be greater than 1000 symbols"},
      {"Length of genre must not be greater than 150 symbols"},
      {"Film's year cannot be in the future."},
      {"This country does not exists, please write full name of your country"},
      {"This status doesn't exist, use one of these: completed, continues, announcement",
       "This status does not exists, please one of this: completed, continues, announcement"}>>

C12_Several(failures) ==
    Cardinality({i \in DOMAIN failures : failures[i]}) > 1

C12_First(failures) ==
    CHOOSE i \in DOMAIN failures :
        failures[i] /\ \A j \in DOMAIN failures : failures[j] => i <= j

C12_FailFastOrder ==
    [][\A w \in Workers :
        /\ pc[w] \in {"idle", "update_actor"} /\ pc'[w] = "done" =>
            \A n \in {"John Doe", "Jane Smith"}, b \in DateInputs \ {<<>>},
               d \in DateInputs \ {<<>>}, c \in CountryInputs :
                (/\ C12_Several(C12_ActorFailures(ActorForm(n, b, d, c)))
                 /\ \/ Actors_add_actor(w, ActorForm(n, b, d, c))
                    \/ Actors_update_actor(w, ActorForm(n, b, d, c)))
                    => /\ resp'[w].status = 400
                       /\ resp'[w].msg =
                            C12_ActorErrors[C12_First(C12_ActorFailures(ActorForm(n, b, d, c)))]
                       /\ UNCHANGED store
        /\ pc[w] \in {"idle", "update_film"} /\ pc'[w] = "done" =>
            \A t \in LengthInputs(MAX_TITLE_LENGTH), d \in LengthInputs(MAX_DESCRIPTION_LENGTH),
               g \in LengthInputs(MAX_GENRE_LENGTH), y \in YearInputs \ {<<>>},
               c \in CountryInputs, s \in StatusInputs :
                (/\ C12_Several(C12_FilmFailures(FilmForm(t, d, g, y, c, s)))
                 /\ \/ Films_add_film(w, FilmForm(t, d, g, y, c, s))
                    \/ Films_update_film(w, FilmForm(t, d, g, y, c, s)))
                    => /\ resp'[w].status = 400
                       /\ resp'[w].msg \in
                            C12_FilmErrors[C12_First(C12_FilmFailures(FilmForm(t, d, g, y, c, s)))]
                       /\ UNCHANGED store
    ]_vars

\* C13: a create or update request that ends in a validation failure
\* (the answer 400) leaves the whole store unchanged: no step of the
\* request, the lookup of an update included, changes a row of actors,
\* films or films_actors or consumes an identifier.
C13_RejectedLeavesStore ==
    [][\A w \in Workers :
        /\ pc[w] = "idle" /\ pc'[w] \in {"update_actor", "update_film"}
                => UNCHANGED <<store, uuid>>
        /\ pc[w] # "done" /\ pc'[w] = "done" /\ resp'[w].status = 400 =>
            /\ pc[w] \in {"idle", "update_actor", "update_film"}
            /\ UNCHANGED <<store, uuid>>
    ]_vars

\* C13 witness: the update of an existing, linked film has just been
\* refused with 400, and the film holds what an accepted submission wrote.
C13_Witness ==
    \E w \in Workers :
        /\ pc[w] = "done"
        /\ resp[w].status = 400
        /\ req[w].film_id \in DOMAIN films
        /\ films[req[w].film_id].country = "United States"
        /\ RowsOfFilm(req[w].film_id) # {}

\* C14: validation is the same on the create and the update path.  For
\* every combination of field values, create accepts it iff update of an
\* existing entity of the same kind accepts it, and when they reject they
\* report the same failing check: the checks of add_actor and update_actor,
\* and of add_film and update_film, agree on every submission, and each
\* actor handler answers a submission as the other handler's checks decide.
\* The failing check a message reports: update_film words the error of the
\* status check differently from add_film.
C14_Check(msg) ==
    IF msg \in {"This status doesn't exist, use one of these: completed, continues, announcement",
                "This status does not exists, please one of this: completed, continues, announcement"}
    THEN "status"
    ELSE msg

C14_CreateOutcome(form) ==
    IF StrptimeRaises(form.birth_date) \/ StrptimeRaises(form.death) THEN "ValueError"
    ELSE add_actor_checks(Strptime(form.birth_date), Strptime(form.death), form.country)

C14_UpdateOutcome(form) ==
    IF StrptimeRaises(form.birth_date) \/ StrptimeRaises(form.death) THEN "ValueError"
    ELSE update_actor_checks(Strptime(form.birth_date), Strptime(form.death), form.country)

C14_SameChecks ==
    /\ \A n \in {"John Doe", "Jane Smith"}, b \in DateInputs, d \in DateInputs,
          c \in CountryInputs :
            C14_Check(C14_CreateOutcome(ActorForm(n, b, d, c)))
                = C14_Check(C14_UpdateOutcome(ActorForm(n, b, d, c)))
    /\ \A t \in LengthInputs(MAX_TITLE_LENGTH), d \in LengthInputs(MAX_DESCRIPTION_LENGTH),
          g \in LengthInputs(MAX_GENRE_LENGTH), y \in YearInputs,
          c \in CountryInputs, s \in StatusInputs :
            C14_Check(add_film_checks(t, d, g, y, c, s))
                = C14_Check(update_film_checks(t, d, g, y, c, s))

\* the response r is the one a handler gives when its checks decide outcome
C14_Answers(r, outcome) ==
    IF outcome = "" THEN r.status = 302 \/ r = ServerError("OperationalError")
    ELSE IF outcome = "ValueError" THEN r = ServerError("ValueError")
    ELSE r.status = 400 /\ C14_Check(r.msg) = C14_Check(outcome)

C14_SameValidation ==
    /\ []C14_SameChecks
    /\ [][\A w \in Workers :
            pc[w] \in {"idle", "update_actor"} /\ pc'[w] = "done" =>
                \A n \in {"John Doe", "Jane Smith"}, b \in DateInputs, d \in DateInputs,
                   c \in CountryInputs :
                    /\ Actors_add_actor(w, ActorForm(n, b, d, c))
                        => C14_Answers(resp'[w], C14_UpdateOutcome(ActorForm(n, b, d, c)))
                    /\ Actors_update_actor(w, ActorForm(n, b, d, c))
                        => C14_Answers(resp'[w], C14_CreateOutcome(ActorForm(n, b, d, c)))
       ]_vars

\* C14 witness: the update of an existing actor has just been refused for
\* its country, the check that also refuses a create.
C14_Witness ==
    \E w \in Workers :
        /\ pc[w] = "done"
        /\ req[w].actor_id \in DOMAIN actors
        /\ resp[w] = BadRequest(add_actor_checks(today, today, "Narnia"))

\* C15: the detail page of an existing film is always rendered, with the
\* film's stored row and its linked actors, whatever the rating lookup
\* does: when the lookup is answered with a non-success status or finds no
\* match the rating is shown as unavailable and no error reaches the
\* caller; when it finds matches, the first match's rating is shown.
C15_DetailIsBestEffort ==
    [][\A w \in Workers : \A film_id \in DOMAIN films : \A outcome \in LookupOutcomes :
        Films_detail(w, film_id, outcome) =>
            /\ resp'[w].status = 200
            /\ resp'[w].page[1].film = films[film_id]
            /\ resp'[w].page[1].actors = {r.actor_id : r \in RowsOfFilm(film_id)}
            /\ resp'[w].page[1].imbd_rating =
                    IF outcome = "match"
                    THEN <<get_rating_movie("match")[1].docs[1].rating.kp>>
                    ELSE <<>>
    ]_vars

\* C16: after a successful update of the existing actor or film X, the
\* row X holds exactly the submitted field values; the identifier X, the
\* associations referencing it (the whole of films_actors), the number of
\* rows of each table and every other row are unchanged.
C16_OthersUnchanged(table, X) ==
    /\ X \in DOMAIN table
    /\ DOMAIN table' = DOMAIN table
    /\ \A k \in (DOMAIN table) \ {X} : table'[k] = table[k]

C16_ActorUpdated(w, form) ==
    LET X == req[w].actor_id
    IN  /\ resp'[w] = Redirect(X)
        /\ C16_OthersUnchanged(actors, X)
        /\ actors'[X].full_name = form.full_name
        /\ actors'[X].birth_date = form.birth_date[1]
        /\ actors'[X].sex = form.sex
        /\ actors'[X].country = form.country
        /\ actors'[X].death = form.death
        /\ UNCHANGED <<films, films_actors>>

C16_FilmUpdated(w, form) ==
    LET X == req[w].film_id
    IN  /\ resp'[w] = Redirect(X)
        /\ C16_OthersUnchanged(films, X)
        /\ films'[X].title = form.title
        /\ films'[X].description = form.description
        /\ films'[X].genre = form.genre
        /\ films'[X].year = form.year[1]
        /\ films'[X].rating = form.rating
        /\ films'[X].country = form.country
        /\ films'[X].status = form.status
        /\ UNCHANGED <<actors, films_actors>>

C16_UpdateFrame ==
    [][\A w \in Workers :
        /\ pc[w] = "update_actor" /\ resp'[w].status = 302 =>
            \A form \in FewActorForms :
                Actors_update_actor(w, form) => C16_ActorUpdated(w, form)
        /\ pc[w] = "update_film" /\ resp'[w].status = 302 =>
            \A form \in FewFilmForms :
                Films_update_film(w, form) => C16_FilmUpdated(w, form)
    ]_vars

\* C16 witness: the linked actor X, written on an earlier day, has just
\* been updated with today's dates, while another actor still holds the
\* dates of the earlier day.
C16_Witness ==
    \E w \in Workers :
        /\ pc[w] = "done"
        /\ req[w].actor_id \in DOMAIN actors
        /\ req[w].film_id = 0
        /\ resp[w] = Redirect(req[w].actor_id)
        /\ RowsOfActor(req[w].actor_id) # {}
        /\ actors[req[w].actor_id].birth_date = today
        /\ \E k \in DOMAIN actors : actors[k].birth_date < today

\* C17: when two link requests for the same existing, not yet linked pair
\* (actor, film) interleave so that both run their already-linked check
\* before either inserts, at most one row of the pair is ever committed:
\* the insert of a request that has passed its check while the pair has
\* meanwhile been linked fails on the unique constraint and changes
\* nothing, and no reachable state holds two rows of a pair.
C17_Inserting(w) == pc[w] \in {"actors_add_film_commit", "films_add_actor_commit"}

C17_SecondInsertFails ==
    /\ [](\A a \in ActorIds, f \in FilmIds : Cardinality(RowsOfPair(a, f)) <= 1)
    /\ [][\A w \in Workers :
            (/\ C17_Inserting(w)
             /\ pc'[w] = "done"
             /\ RowsOfPair(req[w].actor_id, req[w].film_id) # {}) =>
                /\ resp'[w] \in {ServerError("IntegrityError"), ServerError("OperationalError")}
                /\ UNCHANGED <<store, uuid>>
       ]_vars

\* C17 witness: two requests linked the same existing pair; the insert of
\* one succeeded, the insert of the other has just failed on the unique
\* constraint, and the pair has its one row.
C17_Witness ==
    \E w \in Workers, v \in Workers :
        /\ w # v
        /\ pc[w] = "done" /\ pc[v] = "done"
        /\ req[w].actor_id \in DOMAIN actors
        /\ req[w].film_id \in DOMAIN films
        /\ req[v].actor_id = req[w].actor_id
        /\ req[v].film_id = req[w].film_id
        /\ resp[v].status = 302
        /\ resp[w] = ServerError("IntegrityError")
        /\ Cardinality(RowsOfPair(req[w].actor_id, req[w].film_id)) = 1

====
